---- MODULE Spec2Model ----
(***************************************************************************)
(* The training launcher of swift/ui/llm_train/llm_train.py:               *)
(* LLMTrain.train (argument resolver and command builder),                 *)
(* LLMTrain.train_local (fire-and-forget runner) and                       *)
(* LLMTrain.train_studio (streaming runner).                               *)
(*                                                                         *)
(* A text (Python str) is a sequence of symbols.  Every delimiter, digit,  *)
(* sign and blank is a symbol of its own; a maximal run of letters is one  *)
(* symbol (a word).  A Python value is a record with a type tag t and the  *)
(* payload of that type: s (text), n and e (number n / 10^e), l (list of   *)
(* texts).  A dict is a sequence of <<key, value>> records in insertion    *)
(* order, as a Python dict keeps it.                                       *)
(***************************************************************************)
EXTENDS Integers, Sequences, FiniteSets, TLC

\* ------------------------------------------------------------------ texts

Digits == <<"0", "1", "2", "3", "4", "5", "6", "7", "8", "9">>

IsDigit(c) == \E i \in 1..10 : Digits[i] = c

DigitVal(c) == (CHOOSE i \in 1..10 : Digits[i] = c) - 1

IsSign(c) == c \in {"+", "-"}

RECURSIVE Pow10(_)
Pow10(k) == IF k = 0 THEN 1 ELSE 10 * Pow10(k - 1)

RECURSIVE DigitsVal(_)
DigitsVal(t) == IF t = <<>> THEN 0 ELSE 10 * DigitsVal(SubSeq(t, 1, Len(t) - 1)) + DigitVal(t[Len(t)])

AllDigits(t) == \A i \in 1..Len(t) : IsDigit(t[i])

Unsigned(t) == IF t # <<>> /\ IsSign(t[1]) THEN Tail(t) ELSE t

SignOf(t) == IF t # <<>> /\ t[1] = "-" THEN -1 ELSE 1

\* int_regex: an optional sign and one or more digits.
IsIntText(t) == Unsigned(t) # <<>> /\ AllDigits(Unsigned(t))

DotAt(t) == CHOOSE i \in 1..Len(t) : t[i] = "."

\* float_regex: an optional sign, digits, one dot, one or more digits.
IsUnsignedFloat(u) ==
    /\ \E i \in 1..Len(u) : u[i] = "."
    /\ AllDigits(SubSeq(u, 1, DotAt(u) - 1))
    /\ DotAt(u) < Len(u)
    /\ AllDigits(SubSeq(u, DotAt(u) + 1, Len(u)))

IsFloatText(t) == IsUnsignedFloat(Unsigned(t))

\* str.lower on the words the model uses; every other symbol is its own lower case.
Lower(c) ==
    CASE c \in {"True", "TRUE", "true"} -> "true"
      [] c \in {"False", "FALSE", "false"} -> "false"
      [] OTHER -> c

\* bool_regex: "true" or "false", whatever the case.
IsBoolText(t) == Len(t) = 1 /\ Lower(t[1]) \in {"true", "false"}

\* ----------------------------------------------------------------- values

NoText == <<>>

PyNone == [t |-> "none", s |-> NoText, n |-> 0, e |-> 0, l |-> <<>>]

PyStr(x) == [t |-> "str", s |-> x, n |-> 0, e |-> 0, l |-> <<>>]

PyInt(k) == [t |-> "int", s |-> NoText, n |-> k, e |-> 0, l |-> <<>>]

PyFloat(k, d) == [t |-> "float", s |-> NoText, n |-> k, e |-> d, l |-> <<>>]

PyBool(b) == [t |-> "bool", s |-> NoText, n |-> IF b THEN 1 ELSE 0, e |-> 0, l |-> <<>>]

PyList(x) == [t |-> "list", s |-> NoText, n |-> 0, e |-> 0, l |-> x]

IsNumber(v) == v.t \in {"int", "float", "bool"}

\* Python's ==: numbers compare by value across int, float and bool.
PyEq(a, b) ==
    IF IsNumber(a) /\ IsNumber(b)
    THEN a.n * Pow10(b.e) = b.n * Pow10(a.e)
    ELSE a.t = b.t /\ a.s = b.s /\ a.l = b.l

\* Python's truth value.
Truthy(v) ==
    CASE v.t = "str" -> v.s # <<>>
      [] v.t = "list" -> v.l # <<>>
      [] v.t = "none" -> FALSE
      [] OTHER -> v.n # 0

\* int(text) and float(text).
IntOfText(t) == SignOf(t) * DigitsVal(Unsigned(t))

UnsignedFloat(sign, u) ==
    PyFloat(sign * DigitsVal(SubSeq(u, 1, DotAt(u) - 1) \o SubSeq(u, DotAt(u) + 1, Len(u))), Len(u) - DotAt(u))

FloatOfText(t) == UnsignedFloat(SignOf(t), Unsigned(t))

\* The type coercion of a raw form value.
Coerce(value) ==
    IF value.t = "str" /\ IsIntText(value.s) THEN PyInt(IntOfText(value.s))
    ELSE IF value.t = "str" /\ IsFloatText(value.s) THEN FloatOfText(value.s)
    ELSE IF value.t = "str" /\ IsBoolText(value.s) THEN PyBool(Lower(value.s[1]) = "true")
    ELSE value

RECURSIVE TextOfNat(_)
TextOfNat(k) == IF k < 10 THEN <<Digits[k + 1]>> ELSE TextOfNat(k \div 10) \o <<Digits[(k % 10) + 1]>>

Abs(n) == IF n < 0 THEN -n ELSE n

RECURSIVE PadNat(_, _)
PadNat(k, w) == IF w = 0 THEN <<>> ELSE PadNat(k \div 10, w - 1) \o <<Digits[(k % 10) + 1]>>

\* repr of the float n / 10^e: trailing zeros of the fraction dropped.
RECURSIVE FloatText(_, _)
FloatText(n, e) ==
    IF e > 1 /\ n % 10 = 0 THEN FloatText(n \div 10, e - 1)
    ELSE (IF n < 0 THEN <<"-">> ELSE <<>>) \o TextOfNat(Abs(n) \div Pow10(e)) \o <<".">> \o PadNat(Abs(n) % Pow10(e), e)

\* str(value), as an f-string formats it.
TextOf(v) ==
    CASE v.t = "str" -> v.s
      [] v.t = "int" -> IF v.n < 0 THEN <<"-">> \o TextOfNat(-v.n) ELSE TextOfNat(v.n)
      [] v.t = "bool" -> IF v.n = 1 THEN <<"True">> ELSE <<"False">>
      [] v.t = "none" -> <<"None">>
      [] OTHER -> FloatText(v.n, v.e)

\* ------------------------------------------------------------------ dicts

Item(k, v) == [k |-> k, v |-> v]

Has(d, k) == \E i \in 1..Len(d) : d[i].k = k

Idx(d, k) == CHOOSE i \in 1..Len(d) : d[i].k = k

\* d.get(k): None when the key is absent.
Get(d, k) == IF Has(d, k) THEN d[Idx(d, k)].v ELSE PyNone

\* d[k] = v: a present key keeps its place, a new key goes last.
Put(d, k, v) ==
    IF Has(d, k)
    THEN [i \in 1..Len(d) |-> IF d[i].k = k THEN Item(k, v) ELSE d[i]]
    ELSE Append(d, Item(k, v))

\* d.pop(k) of a present key: the dict without it.
Pop(d, k) == SubSeq(d, 1, Idx(d, k) - 1) \o SubSeq(d, Idx(d, k) + 1, Len(d))

\* d.update(m)
RECURSIVE DictUpdate(_, _)
DictUpdate(d, m) == IF m = <<>> THEN d ELSE DictUpdate(Put(d, Head(m).k, Head(m).v), Tail(m))

KeysOf(d) == {d[i].k : i \in 1..Len(d)}

\* ------------------------------------------------------------- json.loads
\* The JSON grammar without blanks, arrays, nesting, escapes, signs and
\* fractions: an object of "key":value members, or one scalar.  A parse gives
\* [ok, v, nx]: whether it succeeded, the value, the place after it.

JFail == [ok |-> FALSE, v |-> PyNone, nx |-> 0]

JDone(v, nx) == [ok |-> TRUE, v |-> v, nx |-> nx]

QuoteSym == "\""

ClosingQuote(t, i) == CHOOSE j \in (i + 1)..Len(t) : t[j] = QuoteSym /\ \A m \in (i + 1)..(j - 1) : t[m] # QuoteSym

RECURSIVE DigitRun(_, _)
DigitRun(t, i) == IF i <= Len(t) /\ IsDigit(t[i]) THEN DigitRun(t, i + 1) ELSE i

JString(t, i) ==
    IF i <= Len(t) /\ t[i] = QuoteSym /\ \E j \in (i + 1)..Len(t) : t[j] = QuoteSym
    THEN JDone(PyStr(SubSeq(t, i + 1, ClosingQuote(t, i) - 1)), ClosingQuote(t, i) + 1)
    ELSE JFail

JScalar(t, i) ==
    IF i > Len(t) THEN JFail
    ELSE IF t[i] = QuoteSym THEN JString(t, i)
    ELSE IF t[i] = "true" THEN JDone(PyBool(TRUE), i + 1)
    ELSE IF t[i] = "false" THEN JDone(PyBool(FALSE), i + 1)
    ELSE IF t[i] = "null" THEN JDone(PyNone, i + 1)
    ELSE IF IsDigit(t[i]) /\ (t[i] # "0" \/ DigitRun(t, i) = i + 1)
         THEN JDone(PyInt(DigitsVal(SubSeq(t, i, DigitRun(t, i) - 1))), DigitRun(t, i))
    ELSE JFail

JNoMembers == [ok |-> FALSE, d |-> <<>>, nx |-> 0]

\* The members of an object from place i on, added to acc: the key k, then the
\* value v, then a comma and the next member or the closing brace.
RECURSIVE JMembers(_, _, _)
JAfterValue(t, acc, k, v) ==
    IF ~v.ok \/ v.nx > Len(t) THEN JNoMembers
    ELSE IF t[v.nx] = "}" THEN [ok |-> TRUE, d |-> Put(acc, k.v.s, v.v), nx |-> v.nx + 1]
    ELSE IF t[v.nx] = "," THEN JMembers(t, v.nx + 1, Put(acc, k.v.s, v.v))
    ELSE JNoMembers

JAfterKey(t, acc, k) ==
    IF ~k.ok \/ k.nx > Len(t) THEN JNoMembers
    ELSE IF t[k.nx] # ":" THEN JNoMembers
    ELSE JAfterValue(t, acc, k, JScalar(t, k.nx + 1))

JMembers(t, i, acc) == JAfterKey(t, acc, JString(t, i))

JError == [kind |-> "error", d |-> <<>>, v |-> PyNone]

JObject(t, m) == IF m.ok /\ m.nx = Len(t) + 1 THEN [kind |-> "dict", d |-> m.d, v |-> PyNone] ELSE JError

JTopScalar(t, x) == IF x.ok /\ x.nx = Len(t) + 1 THEN [kind |-> "scalar", d |-> <<>>, v |-> x.v] ELSE JError

\* json.loads(text): kind "dict" with the dict d, kind "scalar" with the value
\* v, or kind "error" (JSONDecodeError).  A member's key is its text.
JsonLoads(t) ==
    IF t # <<>> /\ t[1] = "{"
    THEN IF Len(t) = 2 /\ t[2] = "}" THEN [kind |-> "dict", d |-> <<>>, v |-> PyNone]
         ELSE JObject(t, JMembers(t, 2, <<>>))
    ELSE JTopScalar(t, JScalar(t, 1))

\* ----------------------------------------------------------- str methods

\* sep.join(list)
RECURSIVE Join(_, _)
Join(sep, l) ==
    IF l = <<>> THEN <<>>
    ELSE IF Len(l) = 1 THEN l[1]
    ELSE l[1] \o sep \o Join(sep, Tail(l))

HasBlank(t) == \E i \in 1..Len(t) : t[i] = " "

FirstBlank(t) == CHOOSE i \in 1..Len(t) : t[i] = " " /\ \A j \in 1..(i - 1) : t[j] # " "

\* text.split(' '): cut at every single blank; two blanks in a row give an empty piece.
RECURSIVE Split(_)
Split(t) ==
    IF ~HasBlank(t) THEN <<t>>
    ELSE <<SubSeq(t, 1, FirstBlank(t) - 1)>> \o Split(SubSeq(t, FirstBlank(t) + 1, Len(t)))

\* text.strip()
RECURSIVE Strip(_)
Strip(t) ==
    IF t # <<>> /\ t[1] = " " THEN Strip(Tail(t))
    ELSE IF t # <<>> /\ t[Len(t)] = " " THEN Strip(SubSeq(t, 1, Len(t) - 1))
    ELSE t

\* [x for x in l if keep(x)] for the two filters the code uses.
RECURSIVE NonEmpty(_)
NonEmpty(l) ==
    IF l = <<>> THEN <<>>
    ELSE (IF l[1] # <<>> THEN <<l[1]>> ELSE <<>>) \o NonEmpty(Tail(l))

RECURSIVE NonBlank(_)
NonBlank(l) ==
    IF l = <<>> THEN <<>>
    ELSE (IF Strip(l[1]) # <<>> THEN <<l[1]>> ELSE <<>>) \o NonBlank(Tail(l))

\* os.path.join(a, b) of a relative b
PathJoin(a, b) ==
    IF a = <<>> THEN b
    ELSE IF a[Len(a)] = "/" THEN a \o b
    ELSE a \o <<"/">> \o b

\* --------------------------------------------------- LLMTrain.train: names

kModel == <<"model">>
kDataset == <<"dataset">>
kCustomDataset == <<"custom_train_dataset_path">>
kResume == <<"resume_from_checkpoint">>
kDeepspeed == <<"deepspeed">>
kTargetModules == <<"target_modules">>
kSeed == <<"seed">>
kLoggingDir == <<"logging_dir">>
kMoreParams == <<"more_params">>
kTrainStage == <<"train_stage">>
kEnvs == <<"envs">>
kGpuId == <<"gpu_id">>
kUseDdp == <<"use_ddp">>
kDdpNum == <<"ddp_num">>
kDryRun == <<"dry_run">>

ignore_elements == {kLoggingDir, kMoreParams, kTrainStage, kEnvs}

\* get_default_value_from_dataclass(RLHFArguments): the defaults of the
\* argument fields the form shows.
default_args ==
    << Item(kModel, PyNone), Item(kDataset, PyList(<<>>)), Item(kCustomDataset, PyList(<<>>)),
       Item(kResume, PyNone), Item(kDeepspeed, PyNone), Item(kTargetModules, PyList(<<<<"all-linear">>>>)),
       Item(kSeed, PyInt(42)), Item(kLoggingDir, PyNone) >>

\* The form elements that carry is_list: text boxes holding blank-separated lists.
ElementIsList(key) == key \in {kTargetModules}

\* --------------------------------------------- LLMTrain.train: the resolver

\* The train stage before the form is read.
InitialStage(group) == IF group = "llm_grpo" THEN PyStr(<<"rlhf">>) ELSE PyStr(<<"sft">>)

\* IsExplicit without the comparison with the default.
IsExplicitIgnoringDefault(key, value) ==
    /\ key \notin ignore_elements
    /\ Has(default_args, key)
    /\ Truthy(value)

\* Whether a coerced value is an explicit override of its field.
IsExplicit(key, value) ==
    /\ key \notin ignore_elements
    /\ Has(default_args, key)
    /\ ~PyEq(Get(default_args, key), value)
    /\ Truthy(value)

\* The resolver's state before the first form field.
Resolve0(group) ==
    [ err |-> "", kwargs |-> <<>>, kwargs_is_list |-> <<>>, other_kwargs |-> <<>>,
      more_kind |-> "dict", more_params |-> <<>>, more_scalar |-> PyNone,
      more_params_cmd |-> NoText, train_stage |-> InitialStage(group),
      looped |-> FALSE, explicit |-> <<>>, merge_done |-> FALSE ]

\* The field goes to kwargs, a list joined by blanks, or to other_kwargs.
Bucket(st, key, value) ==
    IF IsExplicit(key, value)
    THEN [st EXCEPT
            !.kwargs = Put(@, key, IF value.t = "list" THEN PyStr(Join(<<" ">>, value.l)) ELSE value),
            !.kwargs_is_list = Put(@, key, PyBool(value.t = "list" \/ ElementIsList(key)))]
    ELSE [st EXCEPT !.other_kwargs = Put(@, key, value)]

\* more_params = json.loads(value), or more_params_cmd = value when the parse
\* raises JSONDecodeError.
Loaded(st, value, r) ==
    IF r.kind = "error" THEN [st EXCEPT !.more_params_cmd = value.s]
    ELSE [st EXCEPT !.more_kind = r.kind, !.more_params = r.d, !.more_scalar = r.v]

\* The free-form overrides.  json.loads of a value that is no str raises
\* TypeError, which the except clause (JSONDecodeError or TypeError), that is
\* JSONDecodeError alone, does not catch.
ReadMoreParams(st, key, value) ==
    IF key = kMoreParams /\ Truthy(value)
    THEN IF value.t # "str" THEN [st EXCEPT !.err = "TypeError"]
         ELSE Loaded(st, value, JsonLoads(value.s))
    ELSE st

\* train_stage = value
ReadStage(st, key, value) ==
    IF st.err = "" /\ key = kTrainStage THEN [st EXCEPT !.train_stage = value] ELSE st

\* One turn of the loop over zip(keys, args), the value coerced.
ResolveValue(st, key, value) == ReadStage(ReadMoreParams(Bucket(st, key, value), key, value), key, value)

ResolveField(st, key, raw) == ResolveValue(st, key, Coerce(raw))

\* The loop from field i on; an exception ends it.
RECURSIVE ResolveFrom(_, _, _, _)
ResolveFrom(st, keys, args, i) ==
    IF i > Len(keys) \/ i > Len(args) \/ st.err # "" THEN st
    ELSE ResolveFrom(ResolveField(st, keys[i], args[i]), keys, args, i + 1)

\* The loop has ended: looped records that it ran to its end, explicit the
\* explicit overrides it gathered.
EndLoop(st) == IF st.err # "" THEN st ELSE [st EXCEPT !.looped = TRUE, !.explicit = st.kwargs]

\* kwargs.update(more_params): a dict is merged; an empty str changes nothing;
\* any other str raises ValueError and any other scalar TypeError.  merge_done
\* records that the update returned.
MergeMore(st) ==
    IF st.err # "" THEN st
    ELSE IF st.more_kind = "dict" THEN [st EXCEPT !.kwargs = DictUpdate(@, st.more_params), !.merge_done = TRUE]
    ELSE IF st.more_scalar.t = "str" THEN
         IF st.more_scalar.s = <<>> THEN [st EXCEPT !.merge_done = TRUE] ELSE [st EXCEPT !.err = "ValueError"]
    ELSE [st EXCEPT !.err = "TypeError"]

\* CheckDataset looking for the dataset key in other_kwargs as well, where the
\* loop puts a dataset field left empty.
CheckDatasetWrongDict(st) ==
    IF st.err # "" THEN st
    ELSE IF ~Has(st.kwargs, kDataset) /\ ~Has(st.other_kwargs, kDataset) THEN [st EXCEPT !.err = "dataset_alert"]
    ELSE st

\* The dataset check on the merged overrides.
CheckDataset(st) ==
    IF st.err # "" THEN st
    ELSE IF ~Has(st.kwargs, kDataset) /\ ~Has(st.kwargs, kCustomDataset) THEN [st EXCEPT !.err = "dataset_alert"]
    ELSE st

\* The resolver up to the dataset check.
Resolve(group, keys, args) == CheckDataset(MergeMore(EndLoop(ResolveFrom(Resolve0(group), keys, args, 1))))

\* ------------------------------------- LLMTrain.train: checkpoint, validator

\* The paths that exist: a checkpoint directory with its args.json, and a
\* model directory without one.
ExistingPaths == { <<"ckpt">>, <<"ckpt", "/", "args.json">>, <<"hub">> }

Exists(path) == path \in ExistingPaths

\* os.path.exists(model) and os.path.exists(os.path.join(model, 'args.json')):
\* "yes", "no", or "TypeError" (os.stat of None or of a float; os.path.join of
\* an int, which os.path.exists took for an open file descriptor).
IsCheckpoint(model, fd_open) ==
    CASE model.t = "str" ->
            IF Exists(model.s) /\ Exists(PathJoin(model.s, <<"args.json">>)) THEN "yes" ELSE "no"
      [] model.t \in {"int", "bool"} -> IF fd_open THEN "TypeError" ELSE "no"
      [] OTHER -> "TypeError"

\* kwargs[to] = kwargs.pop(from)
Rekey(kwargs, from, to) == Put(Pop(kwargs, from), to, Get(kwargs, from))

\* The deepspeed override leaves kwargs and joins the literal suffix.
TakeDeepspeed(st) ==
    IF Truthy(Get(st.kwargs, kDeepspeed))
    THEN [st EXCEPT
            !.more_params_cmd = @ \o <<" ", "--", "deepspeed", " ">> \o TextOf(Get(st.kwargs, kDeepspeed)) \o <<" ">>,
            !.kwargs = Pop(@, kDeepspeed)]
    ELSE st

\* The keyword map handed to RLHFArguments: a str flagged as a list is split.
ValidatorArgs(kwargs, kwargs_is_list) ==
    [i \in 1..Len(kwargs) |->
        Item(kwargs[i].k,
             IF Truthy(Get(kwargs_is_list, kwargs[i].k)) /\ kwargs[i].v.t = "str"
             THEN PyList(Split(kwargs[i].v.s))
             ELSE kwargs[i].v)]

\* needle in text
Contains(text, needle) ==
    \E i \in 0..(Len(text) - Len(needle)) : SubSeq(text, i + 1, i + Len(needle)) = needle

ModelNotSet == <<"Please", " ", "set", " ", "--", "model">>

\* What RLHFArguments(**kw) may do: return the validated object, or raise with
\* a message.
MsgModelNotSet == <<"ValueError", ":", " ">> \o ModelNotSet \o <<" ", "or", " ", "--", "model_type">>

MsgOther == <<"ValueError", ":", " ", "train_type", " ", "not", " ", "supported">>

ValidatorOutcomes == {<<"ok">>, MsgModelNotSet, MsgOther}

\* The validated object: output_dir, logging_dir and model.
RLHFArguments(kw) ==
    [ output_dir |-> <<"output">>, logging_dir |-> PathJoin(<<"output">>, <<"runs">>), model |-> Get(kw, kModel) ]

NoArgs == [ output_dir |-> NoText, logging_dir |-> NoText, model |-> PyNone ]

\* One call of RLHFArguments with the kwargs kw, which does v; the calls so far.
CallValidator(kw, kwargs_is_list, v, calls) ==
    IF v = <<"ok">>
    THEN [ err |-> "", msg |-> NoText, kwargs |-> kw,
           calls |-> Append(calls, ValidatorArgs(kw, kwargs_is_list)),
           sft_args |-> RLHFArguments(ValidatorArgs(kw, kwargs_is_list)) ]
    ELSE [ err |-> "validation", msg |-> v, kwargs |-> kw,
           calls |-> Append(calls, ValidatorArgs(kw, kwargs_is_list)), sft_args |-> NoArgs ]

\* Retry without the look at the message.
RetryAnyFailure(first, kwargs_is_list, v2) ==
    IF first.err = "" THEN first
    ELSE IF ~Has(first.kwargs, kResume) THEN [first EXCEPT !.err = "KeyError", !.msg = kResume]
    ELSE CallValidator(Rekey(first.kwargs, kResume, kModel), kwargs_is_list, v2, first.calls)

\* The except clause: on 'Please set --model' the key resume_from_checkpoint
\* goes back to model (KeyError when there is none) and RLHFArguments is called
\* once more, doing v2; any other exception is raised again.
Retry(first, kwargs_is_list, v2) ==
    IF first.err = "" THEN first
    ELSE IF ~Contains(first.msg, ModelNotSet) THEN first
    ELSE IF ~Has(first.kwargs, kResume) THEN [first EXCEPT !.err = "KeyError", !.msg = kResume]
    ELSE CallValidator(Rekey(first.kwargs, kResume, kModel), kwargs_is_list, v2, first.calls)

\* The try / except around RLHFArguments: v1 and v2 are what the first and the
\* second call do.  Gives err and the message that propagates, the kwargs after
\* it, the calls made and the object.
Validate(st, v1, v2) == Retry(CallValidator(st.kwargs, st.kwargs_is_list, v1, <<>>), st.kwargs_is_list, v2)

\* ------------------------------------ LLMTrain.train: the command builder

\* cls.quote
Quote(platform) == IF platform = "win32" THEN <<"\"">> ELSE <<"'">>

\* sep
Sep(q) == q \o <<" ">> \o q

\* The flag of one override: --key and its quoted value or values.
FlagOf(key, v, flagged, q) ==
    IF v.t = "list" THEN <<"--">> \o key \o <<" ">> \o q \o Join(Sep(q), v.l) \o q \o <<" ">>
    ELSE IF flagged THEN <<"--">> \o key \o <<" ">> \o q \o Join(Sep(q), NonBlank(Split(v.s))) \o q \o <<" ">>
    ELSE <<"--">> \o key \o <<" ">> \o q \o TextOf(v) \o q \o <<" ">>

\* A value flagged as a list that is no str has no split: AttributeError.
FlagFails(v, flagged) == v.t # "list" /\ flagged /\ v.t # "str"

\* The flags of kwargs, in the dict's order.
RECURSIVE FlagsFrom(_, _, _, _)
FlagsFrom(kwargs, kwargs_is_list, q, i) ==
    IF i > Len(kwargs) THEN <<>>
    ELSE FlagOf(kwargs[i].k, kwargs[i].v, Truthy(Get(kwargs_is_list, kwargs[i].k)), q)
         \o FlagsFrom(kwargs, kwargs_is_list, q, i + 1)

AnyFlagFails(kwargs, kwargs_is_list) ==
    \E i \in 1..Len(kwargs) : FlagFails(kwargs[i].v, Truthy(Get(kwargs_is_list, kwargs[i].k)))

\* The flag the GRPO screen adds, off Windows.
RlhfTypeFlag(group, platform) ==
    IF group = "llm_grpo" /\ platform # "win32"
    THEN <<"--", "rlhf_type", " ">> \o Quote(platform) \o <<"grpo">> \o Quote(platform) \o <<" ">>
    ELSE <<>>

\* The flags every command ends with.
TrailingFlags(sft_args) ==
    <<"--", "add_version", " ", "False", " ", "--", "output_dir", " ">> \o sft_args.output_dir
    \o <<" ", "--", "logging_dir", " ">> \o sft_args.logging_dir
    \o <<" ", "--", "ignore_args_error", " ", "True">>

\* params
Params(group, platform, kwargs, kwargs_is_list, more_params_cmd, sft_args) ==
    RlhfTypeFlag(group, platform) \o FlagsFrom(kwargs, kwargs_is_list, Quote(platform), 1)
    \o more_params_cmd \o <<" ">> \o TrailingFlags(sft_args)

\* [d for d in devices if d]: a list keeps its non-empty entries, a str gives
\* its characters.
Devices(gpu_id) ==
    IF gpu_id.t = "list" THEN NonEmpty(gpu_id.l)
    ELSE [i \in 1..Len(gpu_id.s) |-> <<gpu_id.s[i]>>]

InList(l, x) == \E i \in 1..Len(l) : l[i] = x

\* int(value): the number, or the exception.
IntOf(v) ==
    CASE v.t \in {"int", "bool"} -> [err |-> "", n |-> v.n]
      [] v.t = "float" -> [err |-> "", n |-> IF v.n < 0 THEN -((-v.n) \div Pow10(v.e)) ELSE v.n \div Pow10(v.e)]
      [] v.t = "str" -> IF IsIntText(Strip(v.s)) THEN [err |-> "", n |-> IntOfText(Strip(v.s))]
                        ELSE [err |-> "ValueError", n |-> 0]
      [] OTHER -> [err |-> "TypeError", n |-> 0]

\* assert int(ddp_num) > 0 and the prefix it allows.
DdpOfCount(k) ==
    IF k.err # "" THEN [err |-> k.err, text |-> NoText]
    ELSE IF ~(k.n > 0) THEN [err |-> "AssertionError", text |-> NoText]
    ELSE [err |-> "", text |-> <<"NPROC_PER_NODE", "=">> \o TextOfNat(k.n)]

\* ddp_param, or the exception of the assertion and the conversion before it.
DdpParam(other_kwargs) ==
    IF ~Truthy(Get(other_kwargs, kUseDdp)) THEN [err |-> "", text |-> NoText]
    ELSE DdpOfCount(IntOf(Get(other_kwargs, kDdpNum)))

\* DevicesAllowed looking at the first device alone.
DevicesAllowedFirst(devices) == Len(devices) = 1 \/ devices = <<>> \/ devices[1] # <<"cpu">>

\* assert (len(devices) == 1 or 'cpu' not in devices)
DevicesAllowed(devices) == Len(devices) = 1 \/ ~InList(devices, <<"cpu">>)

\* gpus
Gpus(devices) == Join(<<",">>, devices)

\* cuda_param
CudaParam(devices, npu, cuda) ==
    IF Gpus(devices) # <<"cpu">>
    THEN IF npu THEN <<"ASCEND_RT_VISIBLE_DEVICES", "=">> \o Gpus(devices)
         ELSE IF cuda THEN <<"CUDA_VISIBLE_DEVICES", "=">> \o Gpus(devices)
         ELSE <<>>
    ELSE <<>>

\* The Windows form of the extra environment: a set clause for each.
RECURSIVE SetClauses(_)
SetClauses(l) ==
    IF l = <<>> THEN <<>>
    ELSE <<"set", " ">> \o Strip(l[1]) \o <<" ", "&&", " ">> \o SetClauses(Tail(l))

WinPrefix(p) == IF p # <<>> THEN <<"set", " ">> \o p \o <<" ", "&&", " ">> ELSE p

\* run_command
RunCommand(platform, cuda_param, ddp_param, envs, cmd, params, log_file) ==
    IF platform = "win32"
    THEN WinPrefix(cuda_param) \o WinPrefix(ddp_param)
         \o (IF envs # <<>> THEN SetClauses(NonBlank(Split(envs))) ELSE envs)
         \o <<"start", " ", "/b", " ", "swift", " ", "sft", " ">> \o params
         \o <<" ", ">", " ">> \o log_file \o <<" ", "2>&1">>
    ELSE cuda_param \o <<" ">> \o ddp_param \o <<" ">> \o envs
         \o <<" ", "nohup", " ", "swift", " ">> \o cmd \o <<" ">> \o params
         \o <<" ", ">", " ">> \o log_file \o <<" ", "2>&1", " ", "&">>

\* ------------------------------------------ LLMTrain.train: as a whole

CachedKeys == {kMoreParams, kTrainStage, kUseDdp, kDdpNum, kGpuId, kEnvs}

\* The record save_cache gets: value or None of every argument field and of
\* the six runtime fields, as submitted.
RECURSIVE CacheRecord(_, _, _)
CacheRecord(keys, args, i) ==
    IF i > Len(keys) \/ i > Len(args) THEN <<>>
    ELSE (IF Has(default_args, keys[i]) \/ keys[i] \in CachedKeys
          THEN <<Item(keys[i], IF Truthy(args[i]) THEN args[i] ELSE PyNone)>>
          ELSE <<>>) \o CacheRecord(keys, args, i + 1)

\* What one call of train leaves behind: the exception it ended with (err, ""
\* for a return), the dicts, the calls of RLHFArguments, the command and the
\* cache records written.
NoTrain ==
    [ err |-> "", msg |-> NoText, looped |-> FALSE, explicit |-> <<>>, merge_done |-> FALSE,
      merged |-> <<>>, kwargs |-> <<>>, kwargs_is_list |-> <<>>,
      other_kwargs |-> <<>>, more_params_cmd |-> NoText, cmd |-> NoText, calls |-> <<>>,
      sft_args |-> NoArgs, flags |-> NoText, params |-> NoText, devices |-> <<>>, cuda_param |-> NoText,
      ddp_param |-> NoText, envs |-> NoText, run_command |-> NoText, built |-> FALSE,
      model |-> PyNone, cache |-> <<>> ]

\* Finish saving the cache record whatever model is.
FinishAlwaysSaves(in, t, envs, devices, ddp_param, cuda_param) ==
    [t EXCEPT
       !.devices = devices, !.cuda_param = cuda_param, !.ddp_param = ddp_param, !.envs = envs, !.built = TRUE,
       !.run_command = RunCommand(in.platform, cuda_param, ddp_param, envs, t.cmd, t.params,
                                  PathJoin(t.sft_args.logging_dir, <<"run.log">>)),
       !.cache = <<[model |-> t.model, record |-> CacheRecord(in.keys, in.args, 1)]>>]

\* Lines 366-398: the device variable, the command and the cache record.
Finish(in, t, envs, devices, ddp_param, cuda_param) ==
    [t EXCEPT
       !.devices = devices, !.cuda_param = cuda_param, !.ddp_param = ddp_param, !.envs = envs, !.built = TRUE,
       !.run_command = RunCommand(in.platform, cuda_param, ddp_param, envs, t.cmd, t.params,
                                  PathJoin(t.sft_args.logging_dir, <<"run.log">>)),
       !.cache = IF Truthy(t.model)
                 THEN <<[model |-> t.model, record |-> CacheRecord(in.keys, in.args, 1)]>>
                 ELSE <<>>]

\* Lines 362-365: the two assertions.
Assertions(in, t, envs, devices, ddp) ==
    IF ddp.err # "" THEN [t EXCEPT !.err = ddp.err, !.devices = devices]
    ELSE IF ~DevicesAllowed(devices) THEN [t EXCEPT !.err = "AssertionError", !.devices = devices]
    ELSE Finish(in, t, envs, devices, ddp.text, CudaParam(devices, in.npu, in.cuda))

\* Lines 358-361: devices and envs out of other_kwargs.
Launch(in, t) ==
    IF ~Has(t.other_kwargs, kGpuId) \/ ~Has(t.other_kwargs, kEnvs) THEN [t EXCEPT !.err = "KeyError"]
    ELSE IF Truthy(Get(t.other_kwargs, kEnvs)) /\ Get(t.other_kwargs, kEnvs).t # "str"
         THEN [t EXCEPT !.err = "AttributeError"]
    ELSE IF Get(t.other_kwargs, kGpuId).t \notin {"list", "str"} THEN [t EXCEPT !.err = "TypeError"]
    ELSE IF ~Has(t.other_kwargs, kUseDdp) THEN [t EXCEPT !.err = "KeyError"]
    ELSE Assertions(in, t,
                    IF Truthy(Get(t.other_kwargs, kEnvs)) THEN Strip(Get(t.other_kwargs, kEnvs).s) ELSE NoText,
                    Devices(Get(t.other_kwargs, kGpuId)),
                    DdpParam(t.other_kwargs))

\* Lines 340-356: params, unless a flag raises.
Build(in, t, st) ==
    IF t.err # "" THEN t
    ELSE IF AnyFlagFails(t.kwargs, st.kwargs_is_list) THEN [t EXCEPT !.err = "AttributeError"]
    ELSE Launch(in, [t EXCEPT
                       !.flags = FlagsFrom(t.kwargs, st.kwargs_is_list, Quote(in.platform), 1),
                       !.params = Params(in.group, in.platform, t.kwargs, st.kwargs_is_list,
                                         st.more_params_cmd, t.sft_args)])

\* Lines 321-339: cmd, the deepspeed suffix and the validated arguments.
Validated(in, t, r, st, v) ==
    Build(in,
          [t EXCEPT
             !.cmd = TextOf(r.train_stage), !.kwargs = v.kwargs, !.more_params_cmd = st.more_params_cmd,
             !.calls = v.calls, !.sft_args = v.sft_args, !.err = v.err, !.msg = v.msg],
          st)

Renamed(in, t, r, st) == Validated(in, t, r, st, Validate(st, in.v1, in.v2))

\* Lines 317-319: a model that is a checkpoint directory becomes
\* resume_from_checkpoint.
Checkpoint(in, t, r, ck) ==
    IF ck = "TypeError" THEN [t EXCEPT !.err = "TypeError"]
    ELSE Renamed(in, t, r, TakeDeepspeed(IF ck = "yes" THEN [r EXCEPT !.kwargs = Rekey(@, kModel, kResume)] ELSE r))

Resolved(in, r) ==
    [NoTrain EXCEPT
       !.err = r.err, !.looped = r.looped, !.explicit = r.explicit, !.merge_done = r.merge_done,
       !.merged = r.kwargs, !.kwargs = r.kwargs, !.kwargs_is_list = r.kwargs_is_list,
       !.other_kwargs = r.other_kwargs, !.more_params_cmd = r.more_params_cmd,
       !.model = IF r.err = "" THEN Get(r.kwargs, kModel) ELSE PyNone]

AfterResolve(in, r) ==
    IF r.err # "" THEN Resolved(in, r)
    ELSE Checkpoint(in, Resolved(in, r), r, IsCheckpoint(Get(r.kwargs, kModel), in.fd_open))

\* train(*args) for the submission in.
Train(in) == AfterResolve(in, Resolve(in.group, in.keys, in.args))

\* ------------------------------------------------------------ submissions
\* A submission is the form's fields and the process's surroundings.  Each
\* field has a few values, the first the one of an untouched form; the
\* submissions checked are those that differ from the untouched form in at
\* most MaxVaried fields.

MaxVaried == 2

Absent == [t |-> "absent", s |-> NoText, n |-> 0, e |-> 0, l |-> <<>>]

Dims ==
    { "model", "dataset", "train_stage", "target_modules", "seed", "deepspeed", "resume_from_checkpoint",
      "more_params", "gpu_id", "envs", "use_ddp", "ddp_num", "dry_run", "logging_dir", "group", "platform",
      "npu", "cuda", "fd_open", "validator" }

T(x) == PyStr(x)

\* What the validator does at its first call and, after 'Please set --model',
\* at its second.
ValidatorRuns ==
    << << <<"ok">>, <<"ok">> >>, <<MsgModelNotSet, <<"ok">> >>, <<MsgOther, <<"ok">> >>,
       <<MsgModelNotSet, MsgModelNotSet>>, <<MsgModelNotSet, MsgOther>> >>

MoreParamsTexts ==
    << <<>>,
       <<"not", "-", "json">>,
       <<"True">>,
       <<"{", "\"", "dataset", "\"", ":", "\"", "d", "\"", "}">>,
       <<"{", "\"", "model", "\"", ":", "\"", "\"", "}">>,
       <<"{", "\"", "resume_from_checkpoint", "\"", ":", "\"", "old", "\"", "}">>,
       <<"{", "\"", "dataset", "\"", ":", "5", "}">>,
       <<"null">>,
       <<"{", "\"", "custom_train_dataset_path", "\"", ":", "\"", "d", "\"", "}">>,
       <<"4", "2">>,
       <<"False">> >>

Options(d) ==
    CASE d = "model" -> << T(<<"hub">>), T(<<"ckpt">>), T(<<>>), T(<<"7">>) >>
      [] d = "dataset" ->
            << PyList(<< <<"d">> >>), PyList(<<>>), PyList(<< <<"d">>, <<"e">> >>),
               PyList(<< <<"my", " ", "data">> >>), PyList(<< <<"d">>, <<>> >>) >>
      [] d = "train_stage" -> << Absent, T(<<"rlhf">>), T(<<"pt">>) >>
      [] d = "target_modules" -> << T(<<>>), T(<<"q", " ", "k">>), T(<<"q", " ", " ", "k">>) >>
      [] d = "seed" -> << T(<<"4", "2">>), T(<<"7">>), T(<<"4", "2", ".", "0">>) >>
      [] d = "deepspeed" -> << T(<<>>), T(<<"zero">>) >>
      [] d = "resume_from_checkpoint" -> << T(<<>>), T(<<"old">>) >>
      [] d = "more_params" -> [i \in 1..Len(MoreParamsTexts) |-> T(MoreParamsTexts[i])]
      [] d = "gpu_id" ->
            << PyList(<< <<"0">> >>), PyList(<< <<"cpu">> >>), PyList(<< <<"0">>, <<"1">> >>),
               PyList(<< <<"cpu">>, <<"0">> >>), PyList(<<>>), PyList(<< <<"0">>, <<"cpu">> >>) >>
      [] d = "envs" -> << T(<<>>), T(<<" ", "A=1", " ", " ", "B=2">>) >>
      [] d = "use_ddp" -> << PyBool(FALSE), PyBool(TRUE) >>
      [] d = "ddp_num" -> << T(<<"2">>), T(<<"0">>) >>
      [] d = "dry_run" -> << PyBool(FALSE), PyBool(TRUE) >>
      [] d = "logging_dir" -> << T(<<>>), T(<<"logs">>) >>
      [] d = "group" -> << "llm_train", "llm_grpo" >>
      [] d = "platform" -> << "linux", "win32" >>
      [] d = "npu" -> << FALSE, TRUE >>
      [] d = "cuda" -> << TRUE, FALSE >>
      [] d = "fd_open" -> << FALSE, TRUE >>
      [] d = "validator" -> ValidatorRuns

Untouched == [d \in Dims |-> 1]

\* The choices that differ from the untouched form in at most k fields.
VaryOne(prev) ==
    prev \cup UNION { {[p[1] EXCEPT ![p[2]] = j] : j \in 1..Len(Options(p[2]))} : p \in prev \X Dims }

RECURSIVE Vary(_)
Vary(k) == IF k = 0 THEN {Untouched} ELSE VaryOne(Vary(k - 1))

Pick(f, d) == Options(d)[f[d]]

\* cls.valid_element_keys() and the values submitted with them.
FormKeys(f) ==
    <<kModel, kDataset>> \o (IF Pick(f, "train_stage") = Absent THEN <<>> ELSE <<kTrainStage>>)
    \o <<kTargetModules, kSeed, kDeepspeed, kResume, kMoreParams, kGpuId, kEnvs, kUseDdp, kDdpNum,
         kDryRun, kLoggingDir>>

FormArgs(f) ==
    <<Pick(f, "model"), Pick(f, "dataset")>>
    \o (IF Pick(f, "train_stage") = Absent THEN <<>> ELSE <<Pick(f, "train_stage")>>)
    \o <<Pick(f, "target_modules"), Pick(f, "seed"), Pick(f, "deepspeed"), Pick(f, "resume_from_checkpoint"),
         Pick(f, "more_params"), Pick(f, "gpu_id"), Pick(f, "envs"), Pick(f, "use_ddp"), Pick(f, "ddp_num"),
         Pick(f, "dry_run"), Pick(f, "logging_dir")>>

Submission(f) ==
    [ group |-> Pick(f, "group"), platform |-> Pick(f, "platform"), keys |-> FormKeys(f), args |-> FormArgs(f),
      npu |-> Pick(f, "npu"), cuda |-> Pick(f, "cuda"), fd_open |-> Pick(f, "fd_open"), v1 |-> Pick(f, "validator")[1], v2 |-> Pick(f, "validator")[2] ]

Submissions == {Submission(f) : f \in Vary(MaxVaried)}

NoSubmission ==
    [ group |-> "", platform |-> "", keys |-> <<>>, args |-> <<>>, npu |-> FALSE, cuda |-> FALSE,
      fd_open |-> FALSE, v1 |-> NoText, v2 |-> NoText ]

\* ---------------------------------------------------------- the runners

\* MAX_LOG_LINES when the environment does not set it.
DefaultMaxLogLines == 50

\* The values of MAX_LOG_LINES: not set, or a text.
MaxLogLinesEnvs == { <<"unset">>, <<"1">>, <<"2">>, <<"0">>, <<"-", "1">>, <<"many">> }

\* int(os.environ.get('MAX_LOG_LINES', 50)): err for what int() refuses, and
\* for the negative maxlen deque refuses.
MaxLen(envtext) ==
    IF envtext = <<"unset">> THEN [err |-> "", n |-> DefaultMaxLogLines]
    ELSE IF ~IsIntText(Strip(envtext)) THEN [err |-> "ValueError", n |-> 0]
    ELSE IF IntOfText(Strip(envtext)) < 0 THEN [err |-> "ValueError", n |-> 0]
    ELSE [err |-> "", n |-> IntOfText(Strip(envtext))]

\* deque(maxlen=n).append(x)
DequeAppend(lines, n, x) ==
    IF n = 0 THEN <<>>
    ELSE IF Len(lines) < n THEN Append(lines, x)
    ELSE Append(Tail(lines), x)

\* A line readline returns ends with its newline, unless the stream ended first.
Terminated(line) == line # <<>> /\ line[Len(line)] = "\n"

\* bytes.decode('utf-8'): the byte 0xff is no UTF-8.
Decodable(line) == \A i \in 1..Len(line) : line[i] # "\\xff"

DryRunMessage == <<"Current is dryrun mode so you can only view the training cmd">>

\* One yielded update: the log text, the plots and the command.
Yielded(log, plots, cmd) == [log |-> log, plots |-> plots, cmd |-> cmd]

VARIABLES
    pc,        \* "idle", "streaming", "suspended", "done" or "failed"
    mode,      \* "local" or "studio" once submitted
    sub,       \* the submission
    tr,        \* what train left behind
    err,       \* the exception the handler ended with
    dirs,      \* the directories os.makedirs made
    spawned,   \* the commands handed to os.system or Popen, in order
    ret,       \* what train_local returned
    maxlen,    \* the deque's maxlen
    lines,     \* the deque
    emitted,   \* what readline has returned so far
    yields     \* the updates train_studio has yielded

vars == <<pc, mode, sub, tr, err, dirs, spawned, ret, maxlen, lines, emitted, yields>>

NoReturn == [returned |-> FALSE, run_command |-> NoText, logging_dir |-> NoText]

Init ==
    /\ pc = "idle"
    /\ mode = ""
    /\ sub = NoSubmission
    /\ tr = NoTrain
    /\ err = ""
    /\ dirs = {}
    /\ spawned = <<>>
    /\ ret = NoReturn
    /\ maxlen = 0
    /\ lines = <<>>
    /\ emitted = <<>>
    /\ yields = <<>>

\* Launches with the test of dry_run left out.
LaunchesAlways(t) == TRUE

\* not other_kwargs['dry_run']
Launches(t) == ~Truthy(Get(t.other_kwargs, kDryRun))

\* train_local(*args), t what its call of train leaves behind.
LocalRun(in, t) ==
    /\ pc = "idle"
    /\ mode' = "local"
    /\ sub' = in
    /\ tr' = t
    /\ UNCHANGED <<maxlen, lines, emitted, yields>>
    /\ IF t.err # ""
       THEN /\ pc' = "failed"
            /\ err' = t.err
            /\ UNCHANGED <<dirs, spawned, ret>>
       ELSE IF ~Has(t.other_kwargs, kDryRun)
       THEN /\ pc' = "failed"
            /\ err' = "KeyError"
            /\ UNCHANGED <<dirs, spawned, ret>>
       ELSE /\ pc' = "done"
            /\ err' = ""
            /\ IF Launches(t)
               THEN /\ dirs' = dirs \cup {t.sft_args.logging_dir}
                    /\ spawned' = Append(spawned, [via |-> "os.system", cmd |-> t.run_command])
               ELSE UNCHANGED <<dirs, spawned>>
            /\ ret' = [returned |-> TRUE, run_command |-> t.run_command, logging_dir |-> t.sft_args.logging_dir]

TrainLocal(in) == LocalRun(in, Train(in))

\* train_studio(*args) up to its first yield or its first readline, t what its
\* call of train leaves behind and n the deque's maxlen.
StudioRun(in, t, n) ==
    /\ pc = "idle"
    /\ mode' = "studio"
    /\ sub' = in
    /\ tr' = t
    /\ UNCHANGED <<dirs, ret, lines, emitted>>
    /\ IF t.err # ""
       THEN /\ pc' = "failed"
            /\ err' = t.err
            /\ UNCHANGED <<spawned, maxlen, yields>>
       ELSE IF ~Has(t.other_kwargs, kDryRun)
       THEN /\ pc' = "failed"
            /\ err' = "KeyError"
            /\ UNCHANGED <<spawned, maxlen, yields>>
       ELSE IF ~Launches(t)
       THEN /\ pc' = "suspended"
            /\ err' = ""
            /\ yields' = Append(yields, Yielded(DryRunMessage, "none", t.run_command))
            /\ UNCHANGED <<spawned, maxlen>>
       ELSE IF n.err # ""
       THEN /\ pc' = "failed"
            /\ err' = n.err
            /\ UNCHANGED <<spawned, maxlen, yields>>
       ELSE /\ pc' = "streaming"
            /\ err' = ""
            /\ maxlen' = n.n
            /\ spawned' = Append(spawned, [via |-> "Popen", cmd |-> t.run_command])
            /\ UNCHANGED yields

TrainStudio(in, envtext) == StudioRun(in, Train(in), MaxLen(envtext))

\* The generator resumed after the dry-run update: it returns.
StudioResume ==
    /\ pc = "suspended"
    /\ pc' = "done"
    /\ UNCHANGED <<mode, sub, tr, err, dirs, spawned, ret, maxlen, lines, emitted, yields>>

\* readline returns a line: it is decoded, appended and the buffer is yielded.
StudioReadLine(line) ==
    /\ pc = "streaming"
    /\ line # <<>>
    /\ IF emitted = <<>> THEN TRUE ELSE Terminated(emitted[Len(emitted)])
    /\ emitted' = Append(emitted, line)
    /\ IF Decodable(line)
       THEN /\ lines' = DequeAppend(lines, maxlen, line)
            /\ yields' = Append(yields, Yielded(Join(<<"\n">>, lines'), "plot", tr.run_command))
            /\ UNCHANGED <<pc, err>>
       ELSE /\ pc' = "failed"
            /\ err' = "UnicodeDecodeError"
            /\ UNCHANGED <<lines, yields>>
    /\ UNCHANGED <<mode, sub, tr, dirs, spawned, ret, maxlen>>

\* readline returns b'': the child closed its output and the generator ends.
StudioEOF ==
    /\ pc = "streaming"
    /\ pc' = "done"
    /\ UNCHANGED <<mode, sub, tr, err, dirs, spawned, ret, maxlen, lines, emitted, yields>>

\* ------------------------------------------------------- specifications

\* The lines a child may write, and how many of them, under Spec.
MaxEcho == 1

EchoLines == { <<"a", "\n">>, <<"\\xff", "\n">> }

EchoEnvs == { <<"unset">>, <<"many">> }

Next ==
    \/ pc = "idle" /\ \E in \in Submissions : TrainLocal(in)
    \/ pc = "idle" /\ \E in \in Submissions, envtext \in EchoEnvs : TrainStudio(in, envtext)
    \/ StudioResume
    \/ \E line \in EchoLines : Len(emitted) < MaxEcho /\ StudioReadLine(line)
    \/ StudioEOF

Spec == Init /\ [][Next]_vars

\* The streaming runner alone: one well-formed submission, with and without
\* dry_run, every value of MAX_LOG_LINES and every output of up to MaxLines
\* lines.
MaxLines == 3

StreamLines ==
    { <<"a", "\n">>, <<"b", "\n">>, <<"c", "\n">>, <<"c">>, <<"\n">>, <<"\\xff", "\n">> }

StreamSubmissions ==
    { Submission(f) : f \in {Untouched, [Untouched EXCEPT !["dry_run"] = 2]} }

NextStream ==
    \/ pc = "idle" /\ \E in \in StreamSubmissions, envtext \in MaxLogLinesEnvs : TrainStudio(in, envtext)
    \/ StudioResume
    \/ \E line \in StreamLines : Len(emitted) < MaxLines /\ StudioReadLine(line)
    \/ StudioEOF

SpecStream == Init /\ [][NextStream]_vars
\* ------------------------------------------------------------ properties

Submitted == pc # "idle"

\* The value submitted for a field, None when the form has no such field.
ArgOf(in, key) ==
    IF \E i \in 1..Len(in.keys) : in.keys[i] = key
    THEN in.args[CHOOSE i \in 1..Len(in.keys) : in.keys[i] = key]
    ELSE PyNone

DryRunSet == Submitted /\ Truthy(Coerce(ArgOf(sub, kDryRun)))

NothingLaunched == spawned = <<>> /\ dirs = {}

NoCommand == tr.run_command = NoText /\ ~tr.built /\ ~ret.returned

\* C1: a submission whose merged overrides hold neither dataset nor
\* custom_train_dataset_path ends with the dataset alert, with RLHFArguments
\* never called, no command built, no cache record written and nothing spawned.
C1_DatasetRequired ==
    (Submitted /\ tr.merge_done /\ ~Has(tr.merged, kDataset) /\ ~Has(tr.merged, kCustomDataset))
        => /\ pc = "failed"
           /\ err = "dataset_alert"
           /\ tr.calls = <<>>
           /\ NoCommand
           /\ tr.cache = <<>>
           /\ NothingLaunched
           /\ yields = <<>>

\* C1's case: the free-form JSON was merged, brought no dataset, and the
\* submission ended with the alert.
C1_Witness ==
    /\ err = "dataset_alert"
    /\ tr.merge_done
    /\ tr.merged # tr.explicit
    /\ ~Has(tr.merged, kDataset)

\* C2: with dry_run set nothing is spawned and no directory is made; when train
\* returns, train_studio yields the one static update with the command and
\* ends, and train_local returns the built command.
C2_DryRunSpawnsNothing ==
    DryRunSet
        => /\ NothingLaunched
           /\ (mode = "studio" /\ tr.err = "")
                => /\ yields = <<Yielded(DryRunMessage, "none", tr.run_command)>>
                   /\ pc \in {"suspended", "done"}
                   /\ tr.built
           /\ (mode = "local" /\ tr.err = "")
                => /\ pc = "done"
                   /\ ret.returned
                   /\ tr.built
                   /\ ret.run_command = tr.run_command
           /\ tr.err # "" => (pc = "failed" /\ yields = <<>> /\ ~ret.returned)

\* C2's case: a dry-run submission in streaming mode that has ended after its
\* one update.
C2_Witness ==
    /\ DryRunSet
    /\ mode = "studio"
    /\ pc = "done"
    /\ Len(yields) = 1
    /\ yields[1].cmd # NoText

\* C2's other case: a dry-run submission in fire-and-forget mode that returned
\* its command.
C2_WitnessLocal == DryRunSet /\ mode = "local" /\ ret.returned /\ ret.run_command # NoText

\* C4 as stated: a cache record is written only by a fire-and-forget launch
\* that handed the command to the shell, with a model supplied.
C4_CacheOnlyOnLocalLaunch ==
    tr.cache # <<>>
        => /\ mode = "local"
           /\ Len(spawned) = 1
           /\ spawned[1].via = "os.system"
           /\ Truthy(Get(tr.merged, kModel))

\* C4 amended: the cache record is written by train itself, exactly when train
\* returns its command and the merged overrides hold a truthy model, whatever
\* mode and dry_run are and before anything is launched; it is one record,
\* kept under that model.
C4_CacheWhenTrainReturns ==
    Submitted
        => /\ (tr.cache # <<>>) = (tr.err = "" /\ tr.built /\ Truthy(Get(tr.merged, kModel)))
           /\ Len(tr.cache) <= 1
           /\ tr.cache # <<>> => tr.cache[1].model = Get(tr.merged, kModel)

\* C4's case: a dry-run submission in streaming mode, nothing spawned, and the
\* cache record written.
C4_Witness == DryRunSet /\ mode = "studio" /\ NothingLaunched /\ tr.cache # <<>>

\* C4's other case: train returned a command for an empty model and wrote no
\* record.
C4_WitnessNoModel == tr.built /\ tr.cache = <<>> /\ Len(spawned) = 1

\* The device ids selected in the form.
SelectedIds == NonEmpty(ArgOf(sub, kGpuId).l)

MixedSelection == Submitted /\ Len(SelectedIds) > 1 /\ InList(SelectedIds, <<"cpu">>)

\* C6: a selection of several devices with cpu among them ends the submission
\* with an exception, an AssertionError once the command's flags are built,
\* with no command returned, no cache record and nothing spawned; no command
\* built carries cpu beside another device, and a selection of cpu alone sets
\* no device-visibility variable.
C6_NoMixedDevices ==
    /\ MixedSelection
         => /\ pc = "failed"
            /\ tr.err # ""
            /\ tr.params # NoText => tr.err = "AssertionError"
            /\ NoCommand
            /\ tr.cache = <<>>
            /\ NothingLaunched
            /\ yields = <<>>
    /\ tr.built
         => /\ ~(InList(tr.devices, <<"cpu">>) /\ \E i \in 1..Len(tr.devices) : tr.devices[i] # <<"cpu">>)
            /\ ~(Contains(tr.run_command, <<"cpu", ",">>) \/ Contains(tr.run_command, <<",", "cpu">>))
    /\ (tr.built /\ SelectedIds = << <<"cpu">> >>)
         => /\ tr.cuda_param = NoText
            /\ ~Contains(tr.run_command, <<"CUDA_VISIBLE_DEVICES">>)
            /\ ~Contains(tr.run_command, <<"ASCEND_RT_VISIBLE_DEVICES">>)

\* C6's case: cpu and a numbered device selected, the arguments validated, and
\* the assertion raised.
C6_Witness == MixedSelection /\ tr.calls # <<>> /\ tr.params # NoText /\ err = "AssertionError"

\* C6's other case: cpu alone, the command built.
C6_WitnessCpu == tr.built /\ SelectedIds = << <<"cpu">> >> /\ sub.cuda

\* The dict without one key.
Without(d, k) == IF Has(d, k) THEN Pop(d, k) ELSE d

\* C7: RLHFArguments is called at most twice; a second call follows only a
\* first failure whose message holds 'Please set --model', and gets the first
\* call's arguments with resume_from_checkpoint given back as model; any other
\* first failure, and any failure of the second call, reaches the caller with
\* its own message, with no more calls, no command and nothing spawned.
C7_OneRetry ==
    Submitted
        => /\ Len(tr.calls) <= 2
           /\ Len(tr.calls) = 2
                => /\ Contains(sub.v1, ModelNotSet)
                   /\ Has(tr.calls[1], kResume)
                   /\ ~Has(tr.calls[2], kResume)
                   /\ Get(tr.calls[2], kModel) = Get(tr.calls[1], kResume)
                   /\ Without(tr.calls[2], kModel) = Without(Without(tr.calls[1], kResume), kModel)
           /\ (tr.calls # <<>> /\ sub.v1 # <<"ok">> /\ ~Contains(sub.v1, ModelNotSet))
                => /\ Len(tr.calls) = 1
                   /\ err = "validation"
                   /\ tr.msg = sub.v1
                   /\ NoCommand
                   /\ NothingLaunched
           /\ (Len(tr.calls) = 2 /\ sub.v2 # <<"ok">>)
                => /\ err = "validation"
                   /\ tr.msg = sub.v2
                   /\ NoCommand
                   /\ NothingLaunched

\* C7's case: the first call failed with 'Please set --model', the second was
\* made with model in place of resume_from_checkpoint, and failed too.
C7_Witness ==
    /\ Len(tr.calls) = 2
    /\ Has(tr.calls[2], kModel)
    /\ err = "validation"
    /\ tr.msg = sub.v2

\* C7's other case: the retry succeeded and the command was built.
C7_WitnessRetried == Len(tr.calls) = 2 /\ tr.built

\* C8: once the loop over the form has run, every field is in exactly one of
\* kwargs and other_kwargs: in kwargs exactly when it is outside the ignore-set,
\* has a default, differs from it after coercion and is truthy; a field equal
\* to its default is in other_kwargs.
C8_Buckets ==
    (Submitted /\ tr.looped)
        => \A i \in 1..Len(sub.keys) :
             /\ Has(tr.explicit, sub.keys[i])
                  <=> /\ sub.keys[i] \notin {kLoggingDir, kMoreParams, kTrainStage, kEnvs}
                      /\ Has(default_args, sub.keys[i])
                      /\ ~PyEq(Get(default_args, sub.keys[i]), Coerce(sub.args[i]))
                      /\ Truthy(Coerce(sub.args[i]))
             /\ Has(tr.other_kwargs, sub.keys[i]) <=> ~Has(tr.explicit, sub.keys[i])
             /\ Has(tr.other_kwargs, sub.keys[i]) => Get(tr.other_kwargs, sub.keys[i]) = Coerce(sub.args[i])
             /\ (Has(default_args, sub.keys[i]) /\ PyEq(Get(default_args, sub.keys[i]), Coerce(sub.args[i])))
                  => (Has(tr.other_kwargs, sub.keys[i]) /\ ~Has(tr.explicit, sub.keys[i]))

\* C8's case: seed submitted as 42.0, a float equal to the default 42, went to
\* other_kwargs while the dataset became an explicit override.
C8_Witness ==
    /\ tr.looped
    /\ Has(tr.other_kwargs, kSeed)
    /\ Get(tr.other_kwargs, kSeed).t = "float"
    /\ Has(tr.explicit, kDataset)

\* C8's other case: a logging directory that was changed stays out of kwargs.
C8_WitnessIgnored == tr.looped /\ Truthy(Get(tr.other_kwargs, kLoggingDir)) /\ ~Has(tr.explicit, kLoggingDir)

\* The free-form overrides as submitted.
MoreText == ArgOf(sub, kMoreParams).s

\* C5 as stated: whatever non-empty free-form text is no JSON, the resolver
\* gets past it, merges no key for it, and the command carries the text right
\* after the flags of the overrides.
C5_FailSoftAlways ==
    (Submitted /\ MoreText # <<>> /\ JsonLoads(MoreText).kind = "error")
        => /\ tr.looped
           /\ tr.merge_done
           /\ tr.merged = tr.explicit
           /\ tr.built => Contains(tr.params, tr.flags \o MoreText)

\* The train stage a submission resolves to.
ResolvedStage(in) ==
    IF \E i \in 1..Len(in.keys) : in.keys[i] = kTrainStage THEN TextOf(Coerce(ArgOf(in, kTrainStage)))
    ELSE IF in.group = "llm_grpo" THEN <<"rlhf">>
    ELSE <<"sft">>

\* C9 as stated: on either platform the command runs swift with the resolved
\* train stage as its subcommand, followed by the flags and the redirection,
\* and the GRPO screen's flags are the same on both.
C9_StageIsSubcommand ==
    tr.built
        => /\ Contains(tr.run_command, <<"swift", " ">> \o ResolvedStage(sub) \o <<" ">> \o tr.params \o <<" ", ">", " ">>)
           /\ sub.group = "llm_grpo" => Contains(tr.params, <<"--", "rlhf_type", " ">>)

\* C10 as stated: a list submitted for an explicit override comes back token by
\* token from the joined text, is what RLHFArguments gets, and is what the
\* command carries after the flag, each token quoted.
C10_ListRoundTrip ==
    (Submitted /\ tr.calls # <<>>)
        => \A i \in 1..Len(sub.keys) :
             ( /\ sub.args[i].t = "list"
               /\ Has(tr.explicit, sub.keys[i])
               /\ Has(tr.merged, sub.keys[i])
               /\ Get(tr.merged, sub.keys[i]) = Get(tr.explicit, sub.keys[i]) )
             => /\ Split(Get(tr.explicit, sub.keys[i]).s) = sub.args[i].l
                /\ Get(tr.calls[1], sub.keys[i]) = PyList(sub.args[i].l)
                /\ tr.built
                     => Contains(tr.flags,
                                 <<"--">> \o sub.keys[i] \o <<" ">> \o Quote(sub.platform)
                                 \o Join(Sep(Quote(sub.platform)), sub.args[i].l) \o Quote(sub.platform) \o <<" ">>)

\* A line without its newline.
LineText(line) == IF Terminated(line) THEN SubSeq(line, 1, Len(line) - 1) ELSE line

Min(a, b) == IF a < b THEN a ELSE b

\* C3 as stated: the child's k lines give k updates, the i-th showing the last
\* min(i, N) lines joined by newlines; lines a, b, c with N = 2 end in "b\nc".
C3_UpdateShowsLastLines ==
    (mode = "studio" /\ spawned # <<>> /\ err = "")
        => /\ Len(yields) = Len(emitted)
           /\ \A i \in 1..Len(yields) :
                yields[i].log = Join(<<"\n">>, [j \in 1..Min(i, maxlen) |-> LineText(emitted[i - Min(i, maxlen) + j])])
           /\ (maxlen = 2 /\ emitted = << <<"a", "\n">>, <<"b", "\n">>, <<"c", "\n">> >>)
                => yields[3].log = <<"b", "\n", "c">>
====
